---- MODULE Spec2Model ----
(***************************************************************************)
(* Model of the 3D classroom viewer: src/main.js (camera lock / zoom, VRM  *)
(* loading, pose authoring, frame loop) and the desk grid of               *)
(* src/classroom.js.                                                       *)
(*                                                                         *)
(* Fixed point: lengths are in centimetres (1.2 -> 120), angles of bone    *)
(* rotations in milliradians (1.3 -> 1300), the field of view in           *)
(* hundredths of a degree (65 -> 6500), the clock in whole seconds.        *)
(***************************************************************************)
EXTENDS Integers, Sequences, FiniteSets, TLC

\* ---------------------------------------------------------------- bounds
MaxEvents == 3      \* handler runs (UI, resize, load callbacks) per run of Spec
MaxUi == 3          \* handler runs per run of SpecCamera
MaxLoads == 6       \* handler runs per run of SpecLoad
MaxSelect == 1      \* model-selector changes per run
MaxTime == 3          \* clock.elapsedTime after which no further frame is taken
MaxStride == 2        \* largest step between consecutive Math.random results of a run

\* ------------------------------------------------------- integer helpers
\* a / b rounded toward zero (b > 0)
TruncDiv(a, b) == IF a >= 0 THEN a \div b ELSE -((-a) \div b)

\* a / b rounded away from zero (b > 0)
AwayDiv(a, b) == IF a >= 0 THEN (a + b - 1) \div b ELSE -((-a + b - 1) \div b)

RECURSIVE SqrtSearch(_, _, _)
SqrtSearch(n, lo, hi) ==
  IF lo >= hi THEN lo
  ELSE LET mid == (lo + hi + 1) \div 2
       IN IF mid * mid <= n THEN SqrtSearch(n, mid, hi)
                            ELSE SqrtSearch(n, lo, mid - 1)

\* Math.sqrt, rounded down
ISqrt(n) == SqrtSearch(n, 0, 4000)

\* --------------------------------------------------------- THREE.Vector3
Vec(x, y, z) == [x |-> x, y |-> y, z |-> z]
VAdd(a, b) == Vec(a.x + b.x, a.y + b.y, a.z + b.z)
VSub(a, b) == Vec(a.x - b.x, a.y - b.y, a.z - b.z)
VLength(v) == ISqrt(v.x * v.x + v.y * v.y + v.z * v.z)
DistanceTo(a, b) == VLength(VSub(a, b))

\* --------------------------------------------- constants of src/main.js
initialCameraPos == Vec(0, 115, -490)      \* camera.position.set(0, 1.15, -4.9)
lockedTarget == Vec(0, 115, -1000)         \* controls.target.set(0, 1.15, -10)
fixedCameraPos == Vec(0, 120, -440)        \* new THREE.Vector3(0, 1.2, -4.4)
resetCameraPos == Vec(0, 115, -440)        \* camera.position.set(0, 1.15, -4.4)
resetTarget == Vec(0, 125, -1000)          \* controls.target.set(0.0, 1.25, -10.0)
minDistance == 10                          \* controls.minDistance = 0.1
maxDistance == 1000                        \* controls.maxDistance = 10.0
lockedFov == 6500                          \* 65 degrees
defaultDist == 500                         \* const defaultDist = 5.0
PI == 3142                                 \* Math.PI in milliradians

\* faulty variant: no minDistance / maxDistance limits
ClampRadiusNone(v, lo, hi) == v

\* ------------------------------------------------ three.js OrbitControls
\* spherical.radius = clamp(radius, minDistance, maxDistance) of update(); a
\* zero offset becomes the straight-up direction (phi is made safe from 0).
ClampRadius(v, lo, hi) ==
  LET r == VLength(v)
  IN IF r = 0 THEN Vec(0, lo, 0)
     ELSE IF r < lo THEN Vec(AwayDiv(v.x * lo, r), AwayDiv(v.y * lo, r), AwayDiv(v.z * lo, r))
     ELSE IF r > hi THEN Vec(TruncDiv(v.x * hi, r), TruncDiv(v.y * hi, r), TruncDiv(v.z * hi, r))
     ELSE v

\* sphericalDelta.theta of a drag, in quarter turns about the up axis
RotateQuarter(v, q) ==
  IF q % 4 = 0 THEN v
  ELSE IF q % 4 = 1 THEN Vec(v.z, v.y, -v.x)
  ELSE IF q % 4 = 2 THEN Vec(-v.x, v.y, -v.z)
  ELSE Vec(-v.z, v.y, v.x)

\* the dolly scale num / den applied to the offset
ScaleOffset(v, num, den) ==
  IF num = den THEN v
  ELSE Vec(TruncDiv(v.x * num, den), TruncDiv(v.y * num, den), TruncDiv(v.z * num, den))

\* controls.update() with a pending rotation of q quarter turns and a pending
\* dolly scale num / den: the camera position it writes (the target is kept).
OrbitUpdate(position, target, q, num, den) ==
  LET offset == VSub(position, target)
      turned == RotateQuarter(offset, q)
      scaled == ScaleOffset(turned, num, den)
  IN VAdd(target, ClampRadius(scaled, minDistance, maxDistance))

\* controls.update() with nothing pending (damping is off)
ControlsUpdate(position, target) == OrbitUpdate(position, target, 0, 1, 1)

\* ------------------------------------------------------------ avatar rig
Bones == {"hips", "spine", "neck", "head",
          "leftUpperArm", "rightUpperArm", "leftLowerArm", "rightLowerArm",
          "leftUpperLeg", "rightUpperLeg", "leftLowerLeg", "rightLowerLeg"}
Axes == {"x", "y", "z"}
BoneAxes == Bones \X Axes

\* vrm.meta?.metaVersion: the strings '0' and '1', the number 0, or undefined
\* (no meta, or a meta without the tag)
MetaVersions == {"'0'", "'1'", "0", "undefined"}

Null == [null |-> TRUE]

RestRot == [ba \in BoneAxes |-> 0]

\* A VRM as delivered by the loader: reference pose, hips at rest height.
NewVrm(meta, humanoid, bones, hipsY) ==
  [meta |-> meta, humanoid |-> humanoid, bones |-> bones, rot |-> RestRot,
   hipsY |-> hipsY, calls |-> << >>, position |-> Vec(0, 0, 0), rotationY |-> 0,
   updated |-> -1, idleTime |-> -1]

\* faulty variant: the bone node is written without the if (node) guard
SetRotationUnguarded(vrm, bone, axis, val) == [vrm EXCEPT !.rot[<<bone, axis>>] = val]

\* vrm.humanoid.getNormalizedBoneNode(bone) found: node.rotation[axis] = val
SetRotation(vrm, bone, axis, val) ==
  IF bone \in vrm.bones THEN [vrm EXCEPT !.rot[<<bone, axis>>] = val] ELSE vrm

\* faulty variant: the tag compared with == instead of ===, so the number 0 passes
PoseSignLoose(vrm) == IF vrm.meta \in {"'0'", "0"} THEN 1 ELSE -1

\* const sign = (vrm.meta?.metaVersion === '0') ? 1 : -1
PoseSign(vrm) == IF vrm.meta = "'0'" THEN 1 ELSE -1

Called(vrm, entry) == [vrm EXCEPT !.calls = Append(@, entry)]

SetBasePose(vrm) ==
  IF vrm = Null THEN vrm
  ELSE LET v0 == Called(vrm, <<"setBasePose", 0>>)
       IN IF ~v0.humanoid THEN v0
          ELSE LET sign == PoseSign(v0)
                   v1 == SetRotation(v0, "leftUpperArm", "z", sign * 1300)
                   v2 == SetRotation(v1, "rightUpperArm", "z", sign * (-1300))
                   v3 == SetRotation(v2, "leftLowerArm", "z", sign * 200)
               IN SetRotation(v3, "rightLowerArm", "z", sign * (-200))

SetSittingPose(vrm, armAngle) ==
  IF vrm = Null THEN vrm
  ELSE LET v0 == Called(vrm, <<"setSittingPose", armAngle>>)
       IN IF ~v0.humanoid THEN v0
          ELSE LET sign == PoseSign(v0)
                   v1 == IF "hips" \in v0.bones THEN [v0 EXCEPT !.hipsY = 0] ELSE v0
                   v2 == SetRotation(v1, "leftUpperLeg", "x", sign * 1250)
                   v3 == SetRotation(v2, "rightUpperLeg", "x", sign * 1250)
                   v4 == SetRotation(v3, "leftLowerLeg", "x", sign * (-1450))
                   v5 == SetRotation(v4, "rightLowerLeg", "x", sign * (-1450))
                   v6 == SetRotation(v5, "leftUpperArm", "z", sign * 1000)
                   v7 == SetRotation(v6, "leftUpperArm", "x", sign * armAngle)
                   v8 == SetRotation(v7, "rightUpperArm", "z", sign * (-1000))
                   v9 == SetRotation(v8, "rightUpperArm", "x", sign * armAngle)
                   v10 == SetRotation(v9, "leftLowerArm", "y", sign * (-300))
               IN SetRotation(v10, "rightLowerArm", "y", sign * 300)

\* Math.sin of an angle a >= 0 in milliradians, in thousandths (Bhaskara's
\* rational approximation on each half period).
HalfSin(x) == (16 * x * (PI - x)) \div ((5 * PI * PI - 4 * x * (PI - x)) \div 1000)
Sin(a) ==
  LET m == a % (2 * PI)
  IN IF m <= PI THEN HalfSin(m) ELSE -HalfSin(m - PI)

\* Math.sin(time * rate) * amp + bias; time in seconds, rate in thousandths,
\* amp and bias in milliradians
Wave(time, rate, amp, bias) == TruncDiv(Sin(time * rate) * amp, 1000) + bias

\* faulty variant: the idle animation also sways the left upper arm
ApplyIdleAnimationArms(vrm, time) ==
  IF vrm = Null THEN vrm
  ELSE IF ~vrm.humanoid THEN vrm
  ELSE LET v1 == SetRotation(vrm, "neck", "x", Wave(time, 800, 20, 20))
           v2 == SetRotation(v1, "head", "y", Wave(time, 400, 100, 0))
           v3 == SetRotation(v2, "head", "z", Wave(time, 300, 50, 0))
           v4 == SetRotation(v3, "spine", "z", Wave(time, 200, 20, 0))
           v5 == SetRotation(v4, "leftUpperArm", "z", Wave(time, 200, 20, 0))
       IN [v5 EXCEPT !.idleTime = time]

ApplyIdleAnimation(vrm, time) ==
  IF vrm = Null THEN vrm
  ELSE IF ~vrm.humanoid THEN vrm
  ELSE LET v1 == SetRotation(vrm, "neck", "x", Wave(time, 800, 20, 20))
           v2 == SetRotation(v1, "head", "y", Wave(time, 400, 100, 0))
           v3 == SetRotation(v2, "head", "z", Wave(time, 300, 50, 0))
           v4 == SetRotation(v3, "spine", "z", Wave(time, 200, 20, 0))
       IN [v4 EXCEPT !.idleTime = time]

\* --------------------------------------------------- src/classroom.js
\* createSingleDesk: the parts of one group that bound its footprint, as
\* offsets from the group position, in millimetres.
deskTopHalfW == 450      \* BoxGeometry(0.9, 0.03, 0.5): half width
deskTopHalfD == 250      \* BoxGeometry(0.9, 0.03, 0.5): half depth
seatOffsetZ == 500       \* seat.position.set(0, 0.42, 0.5)
backrestZ == 680         \* backrest.position.set(0, 0.62, 0.68)
backrestHalfD == 15      \* BoxGeometry(0.4, 0.35, 0.03): half depth

\* faulty variant: the chair pushed 5 cm further under the desk
CreateSingleDeskSeatForward(x, z, col, row) ==
  [x |-> x, y |-> 0, z |-> z, col |-> col, row |-> row,
   minX |-> x - deskTopHalfW, maxX |-> x + deskTopHalfW,
   minZ |-> z - deskTopHalfD, maxZ |-> z + backrestZ + backrestHalfD,
   seatX |-> x, seatZ |-> z + seatOffsetZ - 50]

CreateSingleDesk(x, z, col, row) ==
  [x |-> x, y |-> 0, z |-> z, col |-> col, row |-> row,
   minX |-> x - deskTopHalfW, maxX |-> x + deskTopHalfW,
   minZ |-> z - deskTopHalfD, maxZ |-> z + backrestZ + backrestHalfD,
   seatX |-> x, seatZ |-> z + seatOffsetZ]

\* faulty variant: one row too many
CreateDesksAndChairsFiveRows(D) ==
  LET columns == 3
      rows == 5
      spacingX == 2500
      spacingZ == 1600
      startX == -(((columns - 1) * spacingX) \div 2)
      startZ == -D + 3500
  IN [i \in 1..(columns * rows) |->
        LET col == (i - 1) \div rows
            row == (i - 1) % rows
        IN CreateSingleDesk(startX + col * spacingX, startZ + row * spacingZ, col, row)]

\* createDesksAndChairs(parent, D): the groups added, in creation order
\* (outer loop over columns, inner loop over rows); D in millimetres.
CreateDesksAndChairs(D) ==
  LET columns == 3
      rows == 4
      spacingX == 2500
      spacingZ == 1600
      startX == -(((columns - 1) * spacingX) \div 2)
      startZ == -D + 3500
  IN [i \in 1..(columns * rows) |->
        LET col == (i - 1) \div rows
            row == (i - 1) % rows
        IN CreateSingleDesk(startX + col * spacingX, startZ + row * spacingZ, col, row)]

roomD == 10000           \* const D = 10
roomW == 12000           \* const W = 12
roomH == 3500            \* const H = 3.5

\* Math.random(): the values a call may return, in thousandths of [0, 1)
RandomValues == <<0, 250, 500, 750, 999>>

\* One run's sequence of Math.random results: call number k (from 0) returns
\* Draw(seed, k); b = 0 gives the same value at every call.
Seeds == [a : 0..(Len(RandomValues) - 1), b : 0..MaxStride]
Draw(seed, k) == RandomValues[((seed.a + seed.b * k) % Len(RandomValues)) + 1]

\* createLeftWallWithWindows: the scenery plane with its canvas clouds (pixel
\* centre and radius, three draws per cloud) and the three panes of glass.
CreateLeftWallWithWindows(W, H, D, seed, first) ==
  LET wallX == -(W \div 2)
      windowCount == 3
      winZGap == D \div (windowCount + 1)
  IN [scenery |-> Vec(wallX - 5000, H \div 2, -(D \div 2)),
      clouds |-> [i \in 1..8 |->
                    [cx |-> (Draw(seed, first + 3 * (i - 1)) * 1024) \div 1000,
                     cy |-> (Draw(seed, first + 3 * (i - 1) + 1) * 200) \div 1000,
                     cr |-> 20 + (Draw(seed, first + 3 * (i - 1) + 2) * 30) \div 1000]],
      glass |-> [i \in 1..windowCount |-> Vec(wallX, 1900, -(i * winZGap))],
      draws |-> 3 * 8]

\* createRightWall: the scenery plane; its clouds take two draws each and
\* have the fixed radius 25.
CreateRightWall(W, H, D, seed, first) ==
  LET wallX == W \div 2
  IN [scenery |-> Vec(wallX + 8000, H \div 2, -(D \div 2)),
      clouds |-> [i \in 1..6 |->
                    [cx |-> (Draw(seed, first + 2 * (i - 1)) * 1024) \div 1000,
                     cy |-> (Draw(seed, first + 2 * (i - 1) + 1) * 150) \div 1000,
                     cr |-> 25]],
      draws |-> 2 * 6]

\* Math.floor(availableW / (bookW + 0.01)) of fillShelfWithBooks
BookCount(shelfW) == (shelfW - 100) \div (60 + 10)

\* faulty variant: each book is also shifted sideways by a drawn amount
FillShelfWithBooksJitter(seed, first, yPos, shelfW, shelfD) ==
  LET bookW == 60
      bookH == 280
      bookD == 220
      availableW == shelfW - 100
  IN [i \in 1..BookCount(shelfW) |->
        [x |-> -(availableW \div 2) + (i - 1) * (bookW + 10) + bookW \div 2
                 + (Draw(seed, first + 2 * (i - 1) + 1) - 500) \div 100,
         y |-> yPos + bookH \div 2,
         z |-> 20,
         color |-> (Draw(seed, first + 2 * (i - 1)) * 3) \div 1000,
         tilt |-> (Draw(seed, first + 2 * (i - 1) + 1) - 500) * 4,
         spineY |-> yPos + (bookH * 3) \div 4,
         spineZ |-> bookD \div 2 + 6]]

\* fillShelfWithBooks: per book one draw for the colour index and one for the
\* tilt, (Math.random() - 0.5) * 0.04 in units of 10 microradians; the spine
\* label shares the book's x and tilt.
FillShelfWithBooks(seed, first, yPos, shelfW, shelfD) ==
  LET bookW == 60
      bookH == 280
      bookD == 220
      availableW == shelfW - 100
  IN [i \in 1..BookCount(shelfW) |->
        [x |-> -(availableW \div 2) + (i - 1) * (bookW + 10) + bookW \div 2,
         y |-> yPos + bookH \div 2,
         z |-> 20,
         color |-> (Draw(seed, first + 2 * (i - 1)) * 3) \div 1000,
         tilt |-> (Draw(seed, first + 2 * (i - 1) + 1) - 500) * 4,
         spineY |-> yPos + (bookH * 3) \div 4,
         spineZ |-> bookD \div 2 + 6]]

\* createBookshelf: the group position, the side panels, and four layers
\* each filled with books.
CreateBookshelf(W, D, seed, first) ==
  LET shelfW == 1000
      shelfH == 2000
      shelfD == 300
      thickness == 40
      layerCount == 4
      layerSpacing == (shelfH - thickness) \div (layerCount + 1)
  IN [position |-> Vec(-(W \div 2) + 600, 0, -D + 350),
      leftSide |-> -(shelfW \div 2),
      rightSide |-> shelfW \div 2,
      thickness |-> thickness,
      availableW |-> shelfW - 100,
      layers |-> [i \in 1..layerCount |->
                    [y |-> i * layerSpacing,
                     books |-> FillShelfWithBooks(seed, first + (i - 1) * 2 * BookCount(shelfW),
                                                  i * layerSpacing + thickness \div 2,
                                                  shelfW, shelfD)]],
      draws |-> layerCount * 2 * BookCount(shelfW)]

\* createClassroom: its own four planes, the builders it calls in order, and
\* the parts of those builders that Math.random reaches.
CreateClassroom(seed) ==
  LET W == roomW
      D == roomD
      H == roomH
      left == CreateLeftWallWithWindows(W, H, D, seed, 0)
      right == CreateRightWall(W, H, D, seed, left.draws)
  IN [floor |-> Vec(0, 0, -(D \div 2)),
      ceiling |-> Vec(0, H, -(D \div 2)),
      frontWall |-> Vec(0, H \div 2, -D),
      backWall |-> Vec(0, H \div 2, 0),
      builders |-> <<"createLeftWallWithWindows", "createRightWall", "createBlackboard",
                     "createSmartDisplay", "createPodium", "createDesksAndChairs",
                     "createWindowLights", "createCabinet", "createBookshelf",
                     "createPlants", "createDutyRoster", "createClock",
                     "createSchoolMotto", "addBaseboards", "addCeilingLamps",
                     "addBroadcasters">>,
      leftWall |-> left,
      rightWall |-> right,
      desks |-> CreateDesksAndChairs(D),
      bookshelf |-> CreateBookshelf(W, D, seed, left.draws + right.draws)]


\* ------------------------------------------------------------- the state
VARIABLES
  pc,               \* "script": the module body is at animate(); "idle": no
                    \* handler runs; "render": animate is at composer.render()
  isLocked,
  controls,         \* enableRotate, enablePan, enableZoom, target
  camera,           \* position, fov, aspect
  lockBtnUnlocked,  \* lockBtn.classList contains 'unlocked'
  viewport,         \* window size and the sizes given to renderer / composer
  rafPending,       \* animation-frame callbacks requested and not yet run
  clock,            \* elapsedTime and the delta of the running frame
  requests,         \* the loader.load calls issued, by request number
  pending,          \* requests whose callback has not run yet
  vrms,             \* the VRM object each successful request delivered
  teacherVRM,       \* request number of the teacher's VRM, 0 for null
  studentVRMs,      \* sequence of request numbers
  sceneChildren,    \* avatars in the scene (request numbers)
  disposed,         \* avatars given to VRMUtils.deepDispose
  errors,           \* console.error calls of the load error callback
  budget,           \* handler runs (other than frames) still to be explored
  passes,           \* composer.passes
  renders,          \* composer.render() calls in the running frame
  desks,            \* the desk groups createClassroom added
  probe             \* rigs used to exercise the pose functions on their own

vars == <<pc, isLocked, controls, camera, lockBtnUnlocked, viewport, rafPending,
          clock, requests, pending, vrms, teacherVRM, studentVRMs, sceneChildren,
          disposed, errors, budget, passes, renders, desks, probe>>

cameraVars == <<isLocked, controls, camera, lockBtnUnlocked>>
loadVars == <<requests, pending, vrms, teacherVRM, studentVRMs, sceneChildren,
              disposed, errors>>
frameVars == <<pc, rafPending, clock, renders>>
fixedVars == <<passes, desks, probe>>
mainVars == <<pc, isLocked, controls, camera, lockBtnUnlocked, viewport, rafPending,
              clock, requests, pending, vrms, teacherVRM, studentVRMs, sceneChildren,
              disposed, errors, budget, passes, renders, desks>>

\* ---------------------------------------------------------- load requests
aliciaUrl == "/models/AliciaSolid_vrm-0.51.vrm"
vrm1Url == "/models/VRM1_Constraint_Twist_Sample.vrm"
ModelUrls == {aliciaUrl, vrm1Url}

\* the metaVersion the VRM plugin reports for each asset (0.x file / 1.0 file)
AssetMeta(url) == IF url = aliciaUrl THEN "'0'" ELSE "'1'"

restHipsY == 800   \* height of the hips node in the reference pose (asset data)

Request(url, pos, rotationY, isTeacher) ==
  [url |-> url, pos |-> pos, rotationY |-> rotationY, isTeacher |-> isTeacher]

InitialRequests ==
  <<Request(aliciaUrl, Vec(0, 25, -900), PI, TRUE),
    Request(aliciaUrl, Vec(-250, 55, -600), 0, FALSE),
    Request(vrm1Url, Vec(0, 55, -600), PI, FALSE),
    Request(aliciaUrl, Vec(250, 55, -600), 0, FALSE)>>

ReqIds == 1..(Len(InitialRequests) + MaxSelect)

ComposerPasses == <<"RenderPass", "SAOPass", "UnrealBloomPass", "SMAAPass", "OutputPass">>

\* window.innerWidth, innerHeight, devicePixelRatio
WindowStates == {[w |-> 1280, h |-> 720, dpr |-> 1], [w |-> 800, h |-> 600, dpr |-> 3]}
InitialWindow == [w |-> 1280, h |-> 720, dpr |-> 1]

Min(a, b) == IF a < b THEN a ELSE b

NoProbe == [stage |-> "off"]

\* whether the lock button's markup starts with the class 'unlocked'
lockBtnInitiallyUnlocked == FALSE

\* The state when the module body reaches animate() (line 408): controls and
\* camera configured, composer built, the four initial loads issued.
InitWith(events) ==
  /\ pc = "script"
  /\ isLocked = TRUE
  /\ controls = [enableRotate |-> FALSE, enablePan |-> FALSE, enableZoom |-> TRUE,
                 target |-> lockedTarget]
  /\ camera = [position |-> ControlsUpdate(initialCameraPos, lockedTarget),
               fov |-> lockedFov,
               aspect |-> <<InitialWindow.w, InitialWindow.h>>]
  /\ lockBtnUnlocked = lockBtnInitiallyUnlocked
  /\ viewport = [window |-> InitialWindow,
                 renderer |-> <<InitialWindow.w, InitialWindow.h>>,
                 composer |-> <<InitialWindow.w, InitialWindow.h>>,
                 smaa |-> <<InitialWindow.w * InitialWindow.dpr,
                            InitialWindow.h * InitialWindow.dpr>>]
  /\ rafPending = 0
  /\ clock = [elapsedTime |-> 0, deltaTime |-> 0]
  /\ requests = [i \in ReqIds |->
                   IF i <= Len(InitialRequests) THEN InitialRequests[i] ELSE Null]
  /\ pending = 1..Len(InitialRequests)
  /\ vrms = [i \in ReqIds |-> Null]
  /\ teacherVRM = 0
  /\ studentVRMs = << >>
  /\ sceneChildren = {}
  /\ disposed = {}
  /\ errors = 0
  /\ budget = events
  /\ passes = ComposerPasses
  /\ renders = 0
  /\ desks = CreateDesksAndChairs(roomD)

\* ------------------------------------------------------------ animate()
\* THREE.MathUtils.lerp(x, y, 0.1) = 0.9 * x + 0.1 * y
Lerp(x, y) == (9 * x + y) \div 10

\* faulty variant: the locked branch lerps with factor 2 and overshoots 65
LockedBranchOvershoot(cam, ctl) ==
  [position |-> fixedCameraPos, target |-> lockedTarget, fov |-> 2 * lockedFov - cam.fov]

\* faulty variant: the locked branch without camera.position.copy(fixedCameraPos)
LockedBranchKeepsPosition(cam, ctl) ==
  [position |-> cam.position, target |-> lockedTarget, fov |-> Lerp(cam.fov, lockedFov)]

\* lines 384-390: the locked branch; the camera position, target and fov
\* before the closing controls.update()
LockedBranch(cam, ctl) ==
  [position |-> fixedCameraPos, target |-> lockedTarget, fov |-> Lerp(cam.fov, lockedFov)]

\* faulty variant: the unlocked branch zooming by moving the camera, not the target
UnlockedBranchMoves(cam, ctl) ==
  LET position == ControlsUpdate(cam.position, ctl.target)
      dist == DistanceTo(position, ctl.target)
      targetFOV == IF dist = 0 THEN 0 ELSE (lockedFov * dist) \div defaultDist
  IN [position |-> position, target |-> ctl.target, fov |-> Lerp(cam.fov, targetFOV)]

\* lines 357-383: the unlocked branch.  offset.normalize() times dist is the
\* offset itself, so the new target is fixedCameraPos - (position - target).
UnlockedBranch(cam, ctl) ==
  LET position == ControlsUpdate(cam.position, ctl.target)
      dist == DistanceTo(position, ctl.target)
      offset == VSub(position, ctl.target)
      targetFOV == IF dist = 0 THEN 0 ELSE (lockedFov * dist) \div defaultDist
  IN [position |-> fixedCameraPos, target |-> VSub(fixedCameraPos, offset),
      fov |-> Lerp(cam.fov, targetFOV)]

\* vrm.update(deltaTime) leaves the normalized bones alone
VrmUpdate(vrm, delta) == [vrm EXCEPT !.updated = delta]

\* faulty variant: the idle animation is given deltaTime instead of elapsedTime
FrameAvatarDeltaAsTime(vrm, delta, time) == ApplyIdleAnimation(VrmUpdate(vrm, delta), delta)

FrameAvatar(vrm, delta, time) == ApplyIdleAnimation(VrmUpdate(vrm, delta), time)

Range(seq) == {seq[i] : i \in 1..Len(seq)}

\* lines 357-391: the camera logic of a frame, closed by controls.update()
FrameCamera(cam, ctl, locked) ==
  LET branch == IF locked THEN LockedBranch(cam, ctl) ELSE UnlockedBranch(cam, ctl)
  IN [position |-> ControlsUpdate(branch.position, branch.target),
      target |-> branch.target, fov |-> branch.fov]

\* faulty variant: the students are updated after the frame is rendered
FrameAvatarsTeacherOnly(all, teacher, students, delta, time) ==
  [i \in ReqIds |-> IF i = teacher THEN FrameAvatar(all[i], delta, time) ELSE all[i]]

\* lines 393-403: the teacher if there is one, then every student
FrameAvatars(all, teacher, students, delta, time) ==
  LET live == (IF teacher # 0 THEN {teacher} ELSE {}) \cup Range(students)
  IN [i \in ReqIds |-> IF i \in live THEN FrameAvatar(all[i], delta, time) ELSE all[i]]

\* lines 351-403: animate() up to the call of composer.render()
Animate(delta) ==
  LET cam == FrameCamera(camera, controls, isLocked)
      time == clock.elapsedTime + delta
  IN /\ clock' = [elapsedTime |-> time, deltaTime |-> delta]
     /\ controls' = [controls EXCEPT !.target = cam.target]
     /\ camera' = [camera EXCEPT !.position = cam.position, !.fov = cam.fov]
     /\ vrms' = FrameAvatars(vrms, teacherVRM, studentVRMs, delta, time)
     /\ renders' = 0
     /\ pc' = "render"
     /\ UNCHANGED <<isLocked, lockBtnUnlocked, budget, viewport>>
     /\ UNCHANGED <<requests, pending, teacherVRM, studentVRMs, sceneChildren,
                    disposed, errors>>
     /\ UNCHANGED fixedVars

\* line 408: the module body calls animate() once; the clock starts at 0
StartAnimate ==
  /\ pc = "script"
  /\ rafPending' = rafPending + 1
  /\ Animate(0)

Deltas == {1, 2}

\* faulty variant: animate requests two frames per invocation
AnimateFrameTwice ==
  /\ pc = "idle"
  /\ rafPending > 0
  /\ rafPending' = (rafPending - 1) + 2
  /\ \E delta \in Deltas :
       /\ clock.elapsedTime + delta <= MaxTime
       /\ Animate(delta)

\* the browser runs a requested animation-frame callback: the callback leaves
\* the pending set, and line 351 requests the next one
AnimateFrame ==
  /\ pc = "idle"
  /\ rafPending > 0
  /\ rafPending' = (rafPending - 1) + 1
  /\ \E delta \in Deltas :
       /\ clock.elapsedTime + delta <= MaxTime
       /\ Animate(delta)

\* line 405: composer.render(), the end of the frame
AnimateRender ==
  /\ pc = "render"
  /\ renders' = renders + 1
  /\ pc' = "idle"
  /\ UNCHANGED <<rafPending, clock, viewport, budget>>
  /\ UNCHANGED cameraVars
  /\ UNCHANGED loadVars
  /\ UNCHANGED fixedVars

\* ---------------------------------------------------------- UI handlers
WheelScales == {<<19, 20>>, <<20, 19>>, <<1, 64>>, <<2, 1>>}
DragTurns == {1, 3}

\* OrbitControls wheel handler: dolly by the scale, then update()
Wheel ==
  /\ pc = "idle"
  /\ controls.enableZoom
  /\ budget > 0
  /\ \E s \in WheelScales :
       camera' = [camera EXCEPT
                    !.position = OrbitUpdate(camera.position, controls.target, 0, s[1], s[2])]
  /\ budget' = budget - 1
  /\ UNCHANGED <<isLocked, controls, lockBtnUnlocked, viewport>>
  /\ UNCHANGED frameVars
  /\ UNCHANGED loadVars
  /\ UNCHANGED fixedVars

\* OrbitControls left-button drag: refused unless enableRotate
Drag ==
  /\ pc = "idle"
  /\ controls.enableRotate
  /\ budget > 0
  /\ \E q \in DragTurns :
       camera' = [camera EXCEPT
                    !.position = OrbitUpdate(camera.position, controls.target, q, 1, 1)]
  /\ budget' = budget - 1
  /\ UNCHANGED <<isLocked, controls, lockBtnUnlocked, viewport>>
  /\ UNCHANGED frameVars
  /\ UNCHANGED loadVars
  /\ UNCHANGED fixedVars

\* lines 258-262: the reset-view button
ResetClick ==
  /\ pc = "idle"
  /\ budget > 0
  /\ controls' = [controls EXCEPT !.target = resetTarget]
  /\ camera' = [camera EXCEPT !.position = ControlsUpdate(resetCameraPos, resetTarget)]
  /\ budget' = budget - 1
  /\ UNCHANGED <<isLocked, lockBtnUnlocked, viewport>>
  /\ UNCHANGED frameVars
  /\ UNCHANGED loadVars
  /\ UNCHANGED fixedVars

\* faulty variant: the lock button without controls.enableRotate = !isLocked
LockClickNoSync ==
  /\ pc = "idle"
  /\ budget > 0
  /\ isLocked' = ~isLocked
  /\ lockBtnUnlocked' = ~isLocked'
  /\ controls' = [controls EXCEPT !.target = lockedTarget]
  /\ camera' = [camera EXCEPT !.position = ControlsUpdate(camera.position, lockedTarget)]
  /\ budget' = budget - 1
  /\ UNCHANGED viewport
  /\ UNCHANGED frameVars
  /\ UNCHANGED loadVars
  /\ UNCHANGED fixedVars

\* lines 268-278: the lock button
LockClick ==
  /\ pc = "idle"
  /\ budget > 0
  /\ isLocked' = ~isLocked
  /\ lockBtnUnlocked' = ~isLocked'
  /\ controls' = [controls EXCEPT !.enableRotate = ~isLocked', !.target = lockedTarget]
  /\ camera' = [camera EXCEPT !.position = ControlsUpdate(camera.position, lockedTarget)]
  /\ budget' = budget - 1
  /\ UNCHANGED viewport
  /\ UNCHANGED frameVars
  /\ UNCHANGED loadVars
  /\ UNCHANGED fixedVars

\* lines 412-419: the window was resized to w
Resize ==
  /\ pc = "idle"
  /\ budget > 0
  /\ \E w \in WindowStates :
       LET pixelRatio == Min(w.dpr, 2)
       IN /\ viewport' = [window |-> w, renderer |-> <<w.w, w.h>>,
                          composer |-> <<w.w, w.h>>,
                          smaa |-> <<w.w * pixelRatio, w.h * pixelRatio>>]
          /\ camera' = [camera EXCEPT !.aspect = <<w.w, w.h>>]
  /\ budget' = budget - 1
  /\ UNCHANGED <<isLocked, controls, lockBtnUnlocked>>
  /\ UNCHANGED frameVars
  /\ UNCHANGED loadVars
  /\ UNCHANGED fixedVars

\* --------------------------------------------------------------- loadVRM
teacherPos == Vec(0, 25, -900)   \* new THREE.Vector3(0, 0.25, -9.0)

\* lines 191-200: drop the current teacher on a teacher request, then start
\* the fetch as request number n
LoadVRM(n, req) ==
  /\ IF req.isTeacher /\ teacherVRM # 0
       THEN /\ sceneChildren' = sceneChildren \ {teacherVRM}
            /\ disposed' = disposed \cup {teacherVRM}
            /\ teacherVRM' = 0
       ELSE UNCHANGED <<sceneChildren, disposed, teacherVRM>>
  /\ requests' = [requests EXCEPT ![n] = req]
  /\ pending' = pending \cup {n}

\* lines 250-252: the model selector changed to url
SelectModel ==
  /\ pc = "idle"
  /\ budget > 0
  /\ budget' = budget - 1
  /\ \E n \in ReqIds :
       /\ requests[n] = Null
       /\ \A m \in ReqIds : m < n => requests[m] # Null
       /\ \E url \in ModelUrls : LoadVRM(n, Request(url, teacherPos, 0, TRUE))
  /\ UNCHANGED <<vrms, studentVRMs, errors, viewport>>
  /\ UNCHANGED cameraVars
  /\ UNCHANGED frameVars
  /\ UNCHANGED fixedVars

\* VRMUtils.rotateVRM0: a 0.x model is turned half way round
RotateVRM0(vrm) == IF vrm.meta = "'0'" THEN [vrm EXCEPT !.rotationY = PI] ELSE vrm

\* faulty variant: the 1.0 branch of the arm angle forgotten
PoseOnLoadOneAngle(vrm, isTeacher) ==
  IF isTeacher THEN SetBasePose(vrm) ELSE SetSittingPose(vrm, 1200)

\* lines 230-237: the pose given to a freshly loaded model
PoseOnLoad(vrm, isTeacher) ==
  IF isTeacher THEN SetBasePose(vrm)
  ELSE SetSittingPose(vrm, IF vrm.meta = "'0'" THEN 1200 ELSE 1300)

\* faulty variant: rotateVRM0 called after the request's rotation is written
PlaceOnLoadTurnLast(vrm, req) ==
  LET placed == [vrm EXCEPT !.position = req.pos, !.rotationY = req.rotationY]
  IN PoseOnLoad(RotateVRM0(placed), req.isTeacher)

\* lines 212-237 for the model of one request
PlaceOnLoad(vrm, req) ==
  LET turned == RotateVRM0(vrm)
      placed == [turned EXCEPT !.position = req.pos, !.rotationY = req.rotationY]
  IN PoseOnLoad(placed, req.isTeacher)

\* lines 202-239: the success callback of request n
LoadSuccess ==
  /\ pc = "idle"
  /\ budget > 0
  /\ budget' = budget - 1
  /\ \E n \in pending :
       LET req == requests[n]
           vrm == NewVrm(AssetMeta(req.url), TRUE, Bones, restHipsY)
       IN /\ pending' = pending \ {n}
          /\ IF req.isTeacher
               THEN /\ teacherVRM' = n
                    /\ UNCHANGED studentVRMs
               ELSE /\ studentVRMs' = Append(studentVRMs, n)
                    /\ UNCHANGED teacherVRM
          /\ sceneChildren' = sceneChildren \cup {n}
          /\ vrms' = [vrms EXCEPT ![n] = PlaceOnLoad(vrm, req)]
  /\ UNCHANGED <<requests, disposed, errors, viewport>>
  /\ UNCHANGED cameraVars
  /\ UNCHANGED frameVars
  /\ UNCHANGED fixedVars

\* faulty variant: the error callback retries the fetch
LoadErrorRetry ==
  /\ pc = "idle"
  /\ budget > 0
  /\ budget' = budget - 1
  /\ \E n \in pending : pending' = pending
  /\ errors' = errors + 1
  /\ UNCHANGED <<requests, vrms, teacherVRM, studentVRMs, sceneChildren, disposed, viewport>>
  /\ UNCHANGED cameraVars
  /\ UNCHANGED frameVars
  /\ UNCHANGED fixedVars

\* line 241: the error callback of request n
LoadError ==
  /\ pc = "idle"
  /\ budget > 0
  /\ budget' = budget - 1
  /\ \E n \in pending : pending' = pending \ {n}
  /\ errors' = errors + 1
  /\ UNCHANGED <<requests, vrms, teacherVRM, studentVRMs, sceneChildren, disposed, viewport>>
  /\ UNCHANGED cameraVars
  /\ UNCHANGED frameVars
  /\ UNCHANGED fixedVars

Init == InitWith(MaxEvents) /\ probe = NoProbe

Next ==
  \/ StartAnimate
  \/ AnimateFrame
  \/ AnimateRender
  \/ Wheel
  \/ Drag
  \/ ResetClick
  \/ LockClick
  \/ Resize
  \/ SelectModel
  \/ LoadSuccess
  \/ LoadError

\* every handler, interleaved
Spec == Init /\ [][Next]_vars

\* the camera: frames and the camera's UI handlers
InitCamera == InitWith(MaxUi) /\ probe = NoProbe

NextCamera ==
  \/ StartAnimate
  \/ AnimateFrame
  \/ AnimateRender
  \/ Wheel
  \/ Drag
  \/ ResetClick
  \/ LockClick

SpecCamera == InitCamera /\ [][NextCamera]_vars

\* the avatars: frames, the model selector and the load callbacks
InitLoad == InitWith(MaxLoads) /\ probe = NoProbe

NextLoad ==
  \/ StartAnimate
  \/ AnimateFrame
  \/ AnimateRender
  \/ SelectModel
  \/ LoadSuccess
  \/ LoadError

SpecLoad == InitLoad /\ [][NextLoad]_vars

\* ------------------------------------------- the pose functions on their own
\* Two rigs that differ only in the version tag: v0 carries '0', other any
\* other tag.  One action applies one pose function to both.
ProbeBoneSets == {Bones, {}, Bones \ {"leftUpperArm", "hips", "rightLowerLeg"},
                  {"leftUpperArm", "rightLowerArm", "neck"}}
ProbeArmAngles == {1200, 1300, 0}

ProbeInputs ==
  {[stage |-> "ready", fn |-> "none", armAngle |-> 0, time |-> 0, nul |-> Null,
    v0 |-> NewVrm("'0'", h, b, restHipsY), other |-> NewVrm(m, h, b, restHipsY)] :
     h \in BOOLEAN, b \in ProbeBoneSets, m \in MetaVersions \ {"'0'"}}

InitPose == InitWith(0) /\ probe \in ProbeInputs

ProbeBase ==
  /\ probe.stage = "ready"
  /\ probe' = [probe EXCEPT !.stage = "posed", !.fn = "setBasePose",
                            !.v0 = SetBasePose(@), !.other = SetBasePose(@),
                            !.nul = SetBasePose(@)]
  /\ UNCHANGED mainVars

ProbeSitting ==
  /\ probe.stage = "ready"
  /\ \E a \in ProbeArmAngles :
       probe' = [probe EXCEPT !.stage = "posed", !.fn = "setSittingPose", !.armAngle = a,
                              !.v0 = SetSittingPose(@, a), !.other = SetSittingPose(@, a),
                              !.nul = SetSittingPose(@, a)]
  /\ UNCHANGED mainVars

\* applyIdleAnimation on a rig fresh from the loader or already posed
ProbeTimes == {1, 2, 3}

ProbeIdle ==
  /\ probe.stage \in {"ready", "posed"}
  /\ \E t \in ProbeTimes :
       probe' = [probe EXCEPT !.stage = "animated", !.fn = "applyIdleAnimation", !.time = t,
                              !.v0 = ApplyIdleAnimation(@, t),
                              !.other = ApplyIdleAnimation(@, t),
                              !.nul = ApplyIdleAnimation(@, t)]
  /\ UNCHANGED mainVars

NextPose ==
  \/ ProbeBase
  \/ ProbeSitting
  \/ ProbeIdle

SpecPose == InitPose /\ [][NextPose]_vars

\* ------------------------------------- createClassroom run twice, side by side
\* Two calls of createClassroom, each with its own sequence of Math.random
\* results.
SceneInputs ==
  {[stage |-> "ready", seeds |-> <<s1, s2>>, runs |-> <<Null, Null>>] :
     s1 \in Seeds, s2 \in Seeds}

InitScene == InitWith(0) /\ probe \in SceneInputs

BuildClassrooms ==
  /\ probe.stage = "ready"
  /\ probe' = [probe EXCEPT !.stage = "built",
                            !.runs = <<CreateClassroom(probe.seeds[1]),
                                       CreateClassroom(probe.seeds[2])>>]
  /\ UNCHANGED mainVars

NextScene == BuildClassrooms

SpecScene == InitScene /\ [][NextScene]_vars

\* ------------------------------------------------------------------ claims

\* C1: the sign multiplier of setBasePose and setSittingPose is +1 exactly for
\* the string tag '0' and -1 for every other tag (another string, the number
\* 0, no tag): leftUpperArm.rotation.z is written positive for the '0' rig and
\* negative for the other, and for the same armAngle every rotation of the
\* other rig is the negation of the '0' rig's.
C1_SignFlip ==
  probe.stage = "posed" =>
    /\ \A ba \in BoneAxes : probe.other.rot[ba] = -probe.v0.rot[ba]
    /\ (probe.v0.humanoid /\ "leftUpperArm" \in probe.v0.bones) =>
         /\ probe.v0.rot[<<"leftUpperArm", "z">>] > 0
         /\ probe.other.rot[<<"leftUpperArm", "z">>] < 0

C1_Witness ==
  /\ probe.stage = "posed"
  /\ probe.fn = "setSittingPose"
  /\ probe.armAngle = 1300
  /\ probe.other.meta = "0"
  /\ probe.v0.rot[<<"rightUpperArm", "x">>] = 1300
  /\ probe.other.rot[<<"rightUpperArm", "x">>] = -1300
  /\ probe.other.rot[<<"leftLowerLeg", "x">>] = 1450

\* C2: every loaded model has had exactly one pose call, made by its load
\* callback: setBasePose for a teacher request, setSittingPose for a student
\* request with armAngle 1.2 for tag '0' and 1.30 otherwise; frames, resizes
\* and UI handlers add no pose call.
C2_PoseOnceOnLoad ==
  \A n \in ReqIds :
    vrms[n] # Null =>
      vrms[n].calls =
        IF requests[n].isTeacher
          THEN << <<"setBasePose", 0>> >>
          ELSE << <<"setSittingPose", IF vrms[n].meta = "'0'" THEN 1200 ELSE 1300>> >>

C2_Witness ==
  /\ pc = "idle"
  /\ teacherVRM # 0
  /\ \E i \in 1..Len(studentVRMs) : vrms[studentVRMs[i]].meta = "'1'"
  /\ clock.elapsedTime >= 1
  /\ budget = 0

\* C3: once a model is loaded, no step (in particular no frame) changes any
\* of its bone rotations other than neck.x, head.y, head.z and spine.z, nor
\* hips.position.y: the pose written at load time stays.
IdleAxes == {<<"neck", "x">>, <<"head", "y">>, <<"head", "z">>, <<"spine", "z">>}

C3_PoseKept ==
  [][\A n \in ReqIds :
       vrms[n] # Null =>
         /\ \A ba \in BoneAxes \ IdleAxes : vrms'[n].rot[ba] = vrms[n].rot[ba]
         /\ vrms'[n].hipsY = vrms[n].hipsY]_vars

C3_Witness ==
  /\ pc = "render"
  /\ clock.elapsedTime = 3
  /\ \E i \in 1..Len(studentVRMs) :
       LET v == vrms[studentVRMs[i]]
       IN /\ v.idleTime = 3
          /\ v.rot[<<"head", "y">>] # 0
          /\ v.rot[<<"leftUpperLeg", "x">>] = 1250
          /\ v.rot[<<"rightUpperArm", "x">>] = 1200
          /\ v.hipsY = 0

\* C4: when composer.render() is called with isLocked true, the camera is at
\* fixedCameraPos (0, 1.2, -4.4) and the target at (0, 1.15, -10).
C4_LockedRender ==
  (pc = "render" /\ isLocked) =>
    /\ camera.position = Vec(0, 120, -440)
    /\ controls.target = Vec(0, 115, -1000)

C4_Witness ==
  /\ pc = "render"
  /\ isLocked
  /\ clock.elapsedTime >= 1
  /\ budget = 0
  /\ camera.fov # lockedFov

\* C5: when composer.render() is called with isLocked false, the camera is at
\* fixedCameraPos (0, 1.2, -4.4); zooming and turning show only in the fov and
\* in the target.
C5_UnlockedRender ==
  (pc = "render" /\ ~isLocked) => camera.position = Vec(0, 120, -440)

C5_Witness ==
  /\ pc = "render"
  /\ ~isLocked
  /\ budget = 0
  /\ controls.target.x # 0
  /\ camera.fov > lockedFov

C7_OneFramePending ==
  /\ rafPending <= 1
  /\ pc = "script" => rafPending = 0
  /\ pc # "script" => rafPending = 1

C7_Witness ==
  /\ pc = "idle"
  /\ rafPending = 1
  /\ clock.elapsedTime = 3
  /\ errors >= 1
  /\ teacherVRM # 0
  /\ viewport.window # InitialWindow

\* C8: the step that delivers a load failure changes nothing but the pending
\* set, which loses exactly the failed request: teacherVRM, studentVRMs, the
\* scene, the loaded models, isLocked, camera and controls are as before, no
\* request is issued, and the pending frame callback stays.
C8_ErrorOnlyLogs ==
  [][errors' # errors =>
       /\ teacherVRM' = teacherVRM
       /\ studentVRMs' = studentVRMs
       /\ sceneChildren' = sceneChildren
       /\ vrms' = vrms
       /\ isLocked' = isLocked
       /\ camera' = camera
       /\ controls' = controls
       /\ requests' = requests
       /\ rafPending' = rafPending
       /\ pending' \subseteq pending
       /\ Cardinality(pending') = Cardinality(pending) - 1]_vars

C8_Witness ==
  /\ errors >= 1
  /\ teacherVRM # 0
  /\ pending # {}
  /\ pc = "render"
  /\ clock.elapsedTime >= 1

\* C9: the pass chain is RenderPass, SAOPass, UnrealBloomPass, SMAAPass,
\* OutputPass from start-up on; when composer.render() is called the frame
\* has not rendered yet and every loaded avatar has had this frame's update,
\* and a finished frame has rendered exactly once.
C9_RenderLast ==
  /\ passes = <<"RenderPass", "SAOPass", "UnrealBloomPass", "SMAAPass", "OutputPass">>
  /\ pc = "render" =>
       /\ renders = 0
       /\ \A n \in (IF teacherVRM # 0 THEN {teacherVRM} ELSE {}) \cup Range(studentVRMs) :
            /\ vrms[n].updated = clock.deltaTime
            /\ vrms[n].idleTime = clock.elapsedTime
  /\ pc = "idle" => renders = 1

C9_Witness ==
  /\ pc = "render"
  /\ teacherVRM # 0
  /\ Len(studentVRMs) = 2
  /\ clock.deltaTime = 2

\* C10: createDesksAndChairs makes 12 groups, one per (col, row) of
\* {0,1,2} x {0,1,2,3}, at x = -2.5 + 2.5 col, y = 0, z = -10 + 3.5 + 1.6 row;
\* no two share a position, and each (desk top to chair back) lies within
\* x in [-6, 6], z in [-10, 0].
C10_DeskGrid ==
  /\ Len(desks) = 12
  /\ \A col \in 0..2, row \in 0..3 :
       \E i \in 1..Len(desks) :
         /\ desks[i].col = col /\ desks[i].row = row
         /\ desks[i].x = -2500 + 2500 * col
         /\ desks[i].y = 0
         /\ desks[i].z = -10000 + 3500 + 1600 * row
  /\ \A i, j \in 1..Len(desks) :
       i # j => <<desks[i].x, desks[i].z>> # <<desks[j].x, desks[j].z>>
  /\ \A i \in 1..Len(desks) :
       /\ desks[i].minX >= -6000 /\ desks[i].maxX <= 6000
       /\ desks[i].minZ >= -10000 /\ desks[i].maxZ <= 0
       /\ desks[i].maxZ = desks[i].z + 695

C10_Witness ==
  /\ pc = "idle"
  /\ Len(desks) = 12
  /\ desks[12].x = 2500
  /\ desks[12].z = -1700
  /\ desks[12].maxZ = -1005

\* C11: when composer.render() is called, teacherVRM (if any) and every
\* element of studentVRMs have had vrm.update with this frame's deltaTime and
\* applyIdleAnimation with this frame's elapsedTime, so their four idle
\* rotations agree; a request still pending has delivered no avatar.
C11_LiveAvatars == (IF teacherVRM # 0 THEN {teacherVRM} ELSE {}) \cup Range(studentVRMs)

C11_FrameUpdatesAll ==
  /\ pc = "render" =>
       /\ \A n \in C11_LiveAvatars :
            /\ vrms[n].updated = clock.deltaTime
            /\ vrms[n].idleTime = clock.elapsedTime
       /\ \A n, m \in C11_LiveAvatars :
            \A ba \in IdleAxes : vrms[n].rot[ba] = vrms[m].rot[ba]
  /\ \A n \in pending : vrms[n] = Null

C11_Witness ==
  /\ pc = "render"
  /\ teacherVRM # 0
  /\ Len(studentVRMs) = 3
  /\ pending # {}
  /\ clock.elapsedTime = 3
  /\ clock.deltaTime = 1
  /\ vrms[teacherVRM].rot[<<"head", "y">>] # 0

\* C12: the scene holds at most one teacher avatar, and a teacher in the
\* scene is the one teacherVRM refers to.
C12_TeachersInScene == {n \in sceneChildren : requests[n].isTeacher}

C12_OneTeacher ==
  /\ Cardinality(C12_TeachersInScene) <= 1
  /\ \A n \in C12_TeachersInScene : teacherVRM = n

\* C13: once every teacher load has completed (all of them successfully),
\* teacherVRM is the model of the most recently issued teacher request.
C13_TeacherRequests == {n \in ReqIds : requests[n] # Null /\ requests[n].isTeacher}

C13_LastSelectionWins ==
  (errors = 0 /\ C13_TeacherRequests \cap pending = {}) =>
    \A n \in C13_TeacherRequests : teacherVRM >= n

\* C14: while the most recently issued teacher request is still pending,
\* teacherVRM is null and no teacher is in the scene.
C14_NullUntilLoaded ==
  \A n \in C13_TeacherRequests :
    (n \in pending /\ \A m \in C13_TeacherRequests : m <= n) =>
      /\ teacherVRM = 0
      /\ C12_TeachersInScene = {}

\* C15: every avatar in the scene stands at the position and Y-rotation of its
\* own request; studentVRMs has at most 3 entries and changes only by the
\* success callback of a pending student request appending that request.
C15_PlacedAsRequested ==
  /\ [](/\ \A n \in sceneChildren :
             /\ vrms[n].position = requests[n].pos
             /\ vrms[n].rotationY = requests[n].rotationY
        /\ Len(studentVRMs) <= 3)
  /\ [][studentVRMs' # studentVRMs =>
          \E n \in pending :
            /\ ~requests[n].isTeacher
            /\ n \notin pending'
            /\ studentVRMs' = Append(studentVRMs, n)]_vars

C15_Witness ==
  /\ studentVRMs = <<4, 2, 3>>
  /\ teacherVRM = 5
  /\ vrms[2].rotationY = 0
  /\ vrms[3].rotationY = PI
  /\ vrms[4].position = Vec(250, 55, -600)

\* C16: the (x, z) of each student request is the seat centre of its own
\* first-row chair, and the (x, z) of fixedCameraPos is the seat centre of the
\* middle-column second-row chair (desks are in mm, positions in cm).
C16_OnSeat(pos, col, row) ==
  \E j \in 1..Len(desks) :
    /\ desks[j].col = col /\ desks[j].row = row
    /\ desks[j].seatX = 10 * pos.x
    /\ desks[j].seatZ = 10 * pos.z

C16_Seats ==
  /\ C16_OnSeat(requests[2].pos, 0, 0)
  /\ C16_OnSeat(requests[3].pos, 1, 0)
  /\ C16_OnSeat(requests[4].pos, 2, 0)
  /\ \A n \in 2..4 : ~requests[n].isTeacher /\ requests[n].pos.z = -600
  /\ C16_OnSeat(fixedCameraPos, 1, 1)
  /\ pc = "render" => C16_OnSeat(camera.position, 1, 1)

C16_Witness ==
  /\ pc = "render"
  /\ Len(studentVRMs) = 3
  /\ camera.position = Vec(0, 120, -440)
  /\ desks[5].seatX = 0
  /\ desks[5].seatZ = -6000
  /\ desks[6].seatZ = -4400

\* C17: every teacher request asks for position (0, 0.25, -9.0) and
\* Y-rotation PI.
C17_TeacherRequestArgs ==
  \A n \in C13_TeacherRequests :
    /\ requests[n].pos = Vec(0, 25, -900)
    /\ requests[n].rotationY = PI

\* C18: a frame taken while locked sets fov to 0.9 fov + 0.1 * 65: the
\* distance to 65 does not grow, shrinks while it is at least 0.1 degree,
\* fov does not cross 65, and 65 stays 65.
C18_Dist(f) == IF f >= 6500 THEN f - 6500 ELSE 6500 - f

C18_LockedFovConverges ==
  [][(isLocked /\ pc' = "render") =>
       /\ camera'.fov = (9 * camera.fov + 6500) \div 10
       /\ C18_Dist(camera'.fov) <= C18_Dist(camera.fov)
       /\ C18_Dist(camera.fov) >= 10 => C18_Dist(camera'.fov) < C18_Dist(camera.fov)
       /\ camera.fov >= 6500 => camera'.fov >= 6500
       /\ camera.fov <= 6500 => camera'.fov <= 6500]_vars

C18_Witness ==
  /\ pc = "render"
  /\ isLocked
  /\ camera.fov > 6500
  /\ camera.fov < 6578
  /\ clock.elapsedTime = 3

\* C19: when composer.render() is called unlocked, the camera-to-target
\* distance (the one the zoom factor used) is within [0.1, 10], and camera.fov
\* is within [1.3, 130] degrees in every state.
C19_FovRange ==
  /\ camera.fov >= 130
  /\ camera.fov <= 13000
  /\ (pc = "render" /\ ~isLocked) =>
       /\ DistanceTo(camera.position, controls.target) >= 10
       /\ DistanceTo(camera.position, controls.target) <= 1000

C19_Witness ==
  /\ pc = "render"
  /\ ~isLocked
  /\ DistanceTo(camera.position, controls.target) = 10
  /\ camera.fov < 6500

\* C20: in a frame after unlocking with no other input the camera-to-target
\* distance is defaultDist (5.0) and the field of view is still 65.
C20_UnlockKeepsFov ==
  (pc = "render" /\ ~isLocked /\ budget = MaxUi - 1) =>
    /\ DistanceTo(camera.position, controls.target) = 500
    /\ camera.fov = 6500

\* C21: setBasePose, setSittingPose and applyIdleAnimation leave a null avatar
\* null and change nothing on an avatar without a humanoid; on a humanoid
\* every rotation the function assigns is written on each bone the rig has,
\* a bone the rig lacks is skipped, and nothing else is touched (hips height
\* is zeroed only by setSittingPose and only when the rig has hips).
C21_BaseWrites(sign) ==
  (<<"leftUpperArm", "z">> :> sign * 1300) @@ (<<"rightUpperArm", "z">> :> sign * (-1300)) @@
  (<<"leftLowerArm", "z">> :> sign * 200) @@ (<<"rightLowerArm", "z">> :> sign * (-200))

C21_SittingWrites(sign, armAngle) ==
  (<<"leftUpperLeg", "x">> :> sign * 1250) @@ (<<"rightUpperLeg", "x">> :> sign * 1250) @@
  (<<"leftLowerLeg", "x">> :> sign * (-1450)) @@ (<<"rightLowerLeg", "x">> :> sign * (-1450)) @@
  (<<"leftUpperArm", "z">> :> sign * 1000) @@ (<<"leftUpperArm", "x">> :> sign * armAngle) @@
  (<<"rightUpperArm", "z">> :> sign * (-1000)) @@ (<<"rightUpperArm", "x">> :> sign * armAngle) @@
  (<<"leftLowerArm", "y">> :> sign * (-300)) @@ (<<"rightLowerArm", "y">> :> sign * 300)

C21_IdleWrites(time) ==
  (<<"neck", "x">> :> Wave(time, 800, 20, 20)) @@ (<<"head", "y">> :> Wave(time, 400, 100, 0)) @@
  (<<"head", "z">> :> Wave(time, 300, 50, 0)) @@ (<<"spine", "z">> :> Wave(time, 200, 20, 0))

C21_Writes(p, sign) ==
  IF p.fn = "setBasePose" THEN C21_BaseWrites(sign)
  ELSE IF p.fn = "setSittingPose" THEN C21_SittingWrites(sign, p.armAngle)
  ELSE C21_IdleWrites(p.time)

C21_RigStep(old, new, p, sign) ==
  /\ new.bones = old.bones /\ new.humanoid = old.humanoid /\ new.meta = old.meta
  /\ ~old.humanoid => (new.rot = old.rot /\ new.hipsY = old.hipsY)
  /\ old.humanoid =>
       /\ \A ba \in BoneAxes :
            new.rot[ba] = IF ba \in DOMAIN C21_Writes(p, sign) /\ ba[1] \in old.bones
                          THEN C21_Writes(p, sign)[ba]
                          ELSE old.rot[ba]
       /\ new.hipsY = IF p.fn = "setSittingPose" /\ "hips" \in old.bones
                      THEN 0 ELSE old.hipsY

C21_IncompleteRig ==
  [][probe' # probe =>
       /\ probe'.nul = Null
       /\ C21_RigStep(probe.v0, probe'.v0, probe', 1)
       /\ C21_RigStep(probe.other, probe'.other, probe', -1)]_vars

C21_Witness ==
  /\ probe.stage = "animated"
  /\ probe.nul = Null
  /\ probe.v0.humanoid
  /\ probe.v0.bones = {"leftUpperArm", "rightLowerArm", "neck"}
  /\ "setSittingPose" \in {probe.v0.calls[i][1] : i \in 1..Len(probe.v0.calls)}
  /\ probe.v0.rot[<<"leftUpperArm", "x">>] = 1200
  /\ probe.v0.rot[<<"rightUpperArm", "x">>] = 0
  /\ probe.v0.rot[<<"neck", "x">>] # 0
  /\ probe.v0.rot[<<"head", "y">>] = 0
  /\ probe.v0.hipsY = restHipsY

\* C22: two runs of createClassroom with different Math.random results build
\* the same scene once cloud positions and the books' colour and tilt are set
\* aside; every tilt is at most 0.02 rad in magnitude, every shelf holds
\* floor(0.9 / 0.07) = 12 books, and every book (tilted as placed) lies
\* within the available shelf width.
C22_Abs(n) == IF n < 0 THEN -n ELSE n

\* Half the width, in micrometres, a box of half-width halfW and half-height
\* halfH (mm) spans once rotation.z = tilt turns it about its centre.
C22_Reach(halfW, halfH, tilt) ==
  halfW * 1000 - (halfW * ((tilt * tilt) \div 20000)) \div 1000
    + (halfH * C22_Abs(tilt)) \div 100

C22_Books(scene) ==
  {scene.bookshelf.layers[i].books[j] :
     i \in 1..Len(scene.bookshelf.layers), j \in 1..BookCount(1000)}

C22_PlacedBooks(scene) ==
  [i \in 1..Len(scene.bookshelf.layers) |->
     [y |-> scene.bookshelf.layers[i].y,
      books |-> [j \in 1..Len(scene.bookshelf.layers[i].books) |->
                   LET b == scene.bookshelf.layers[i].books[j]
                   IN [x |-> b.x, y |-> b.y, z |-> b.z,
                       spineY |-> b.spineY, spineZ |-> b.spineZ]]]]

\* the scene with cloud centres and the books' colour and tilt set aside
C22_ApartFromListed(scene) ==
  [scene EXCEPT
     !.leftWall.clouds = [i \in 1..Len(@) |-> @[i].cr],
     !.rightWall.clouds = [i \in 1..Len(@) |-> @[i].cr],
     !.bookshelf.layers = C22_PlacedBooks(scene)]

\* the scene with the whole cloud drawing and the books' colour and tilt set
\* aside
C22_ApartFromTextures(scene) ==
  [scene EXCEPT
     !.leftWall.clouds = Len(@),
     !.rightWall.clouds = Len(@),
     !.bookshelf.layers = C22_PlacedBooks(scene)]

C22_TiltAndCount(scene) ==
  /\ \A i \in 1..Len(scene.bookshelf.layers) :
       Len(scene.bookshelf.layers[i].books) = 12
  /\ \A b \in C22_Books(scene) : C22_Abs(b.tilt) <= 2000

====
